---- MODULE Spec2Model ----
(***************************************************************************)
(* A model of src/you.py: a Flask service with two rate-limited,           *)
(* API-key-protected routes (POST /api/download, GET /api/info) over       *)
(* extract_info, which filters the formats yt-dlp reports and picks the    *)
(* best one with Python's max().                                           *)
(*                                                                         *)
(* Python values are tagged records: None, PyInt(n), PyStr(s), PyList(l).  *)
(* A string is a sequence of pieces: the strings the code inspects (the    *)
(* request's url and type) are sequences of characters, so that            *)
(* str.lower() and str.startswith() are computed; a string the code only   *)
(* passes along or compares whole (a codec, a stream URL) is one piece.    *)
(* A dict is a function from its keys.                                     *)
(***************************************************************************)
EXTENDS Integers, Sequences, FiniteSets, TLC

VARIABLES
    requests,   \* the requests in flight, each with its place in the handler
    hits,       \* the limiter's counters, one per route and address
    window,     \* history: the calls let through and turned away, per route
                \* and address, since the counter's window began
    selIn,      \* the arguments of a call of extract_info on its own
    selOut      \* and what it returned or raised

vars == <<requests, hits, window, selIn, selOut>>

----------------------------------------------------------------------------
(* Python values *)

None == [t |-> "None"]

PyInt(n) == [t |-> "int", v |-> n]

PyStr(s) == [t |-> "str", v |-> s]

PyList(l) == [t |-> "list", v |-> l]

PyDict(d) == [t |-> "dict", v |-> d]

\* bool(x) is False for None, 0, "" and empty containers
Falsy(x) ==
    \/ x.t = "None"
    \/ x.t = "int" /\ x.v = 0
    \/ x.t \in {"str", "list"} /\ x.v = <<>>
    \/ x.t = "dict" /\ DOMAIN x.v = {}

SetMin(S) == CHOOSE x \in S : \A y \in S : x <= y

Range(f) == {f[x] : x \in DOMAIN f}

\* a > b on two scalars: int with int compares, anything with None raises
PyGtScalar(a, b) ==
    IF a.t = "int" /\ b.t = "int"
    THEN (IF a.v > b.v THEN "True" ELSE "False")
    ELSE "TypeError"

\* a > b on two tuples of the same length: the first index where they differ
\* (by ==, so None == None) decides, by > on the two items there
PyGtTuple(a, b) ==
    LET d == {i \in 1..Len(a) : a[i] # b[i]}
    IN  IF d = {} THEN "False" ELSE PyGtScalar(a[SetMin(d)], b[SetMin(d)])

PyGt(a, b, isTuple) == IF isTuple THEN PyGtTuple(a, b) ELSE PyGtScalar(a, b)

\* max(iterable, key=...): the first item is the candidate, each later item
\* replaces it when key(item) > key(candidate); a comparison that raises ends
\* the scan.  The index of the maximum, or 0 for TypeError.
RECURSIVE MaxScan(_, _, _, _)
MaxScan(keys, isTuple, i, best) ==
    IF i > Len(keys) THEN best
    ELSE LET c == PyGt(keys[i], keys[best], isTuple)
         IN  IF c = "TypeError" THEN 0
             ELSE MaxScan(keys, isTuple, i + 1, IF c = "True" THEN i ELSE best)

PyMax(keys, isTuple) == MaxScan(keys, isTuple, 2, 1)

----------------------------------------------------------------------------
(* extract_info *)

AUDIO == <<"a", "u", "d", "i", "o">>

VIDEO == <<"v", "i", "d", "e", "o">>

\* the keys of the dict extract_info returns, and those copied from info
\* with info.get(key) (tags and categories default to [])
PassKeys ==
    {"title", "id", "duration", "duration_string", "uploader", "channel_url",
     "thumbnail", "description", "tags", "categories", "view_count",
     "like_count", "webpage_url", "upload_date"}

ResultKeys == PassKeys \cup {"media_type", "stream_url", "available_formats"}

InfoGet(info, k) ==
    IF k \in DOMAIN info THEN info[k]
    ELSE IF k \in {"tags", "categories"} THEN PyList(<<>>) ELSE None

RawFormats(info) == IF "formats" \in DOMAIN info THEN info["formats"] ELSE <<>>

AudioKept(f) == f.acodec # PyStr(<<"none">>) /\ f.vcodec = PyStr(<<"none">>)

VideoKept(f) == f.vcodec # PyStr(<<"none">>) /\ f.acodec # PyStr(<<"none">>)

AudioEntry(f) ==
    [format_id |-> f.format_id, ext |-> f.ext, filesize |-> f.filesize,
     asr |-> f.asr, url |-> f.url]

VideoEntry(f) ==
    [format_id |-> f.format_id, ext |-> f.ext, width |-> f.width,
     height |-> f.height, filesize |-> f.filesize, fps |-> f.fps,
     url |-> f.url]

RECURSIVE FilterAudio(_)
FilterAudio(raw) ==
    IF raw = <<>> THEN <<>>
    ELSE (IF AudioKept(Head(raw)) THEN <<AudioEntry(Head(raw))>> ELSE <<>>)
         \o FilterAudio(Tail(raw))

RECURSIVE FilterVideo(_)
FilterVideo(raw) ==
    IF raw = <<>> THEN <<>>
    ELSE (IF VideoKept(Head(raw)) THEN <<VideoEntry(Head(raw))>> ELSE <<>>)
         \o FilterVideo(Tail(raw))

\* x.get("asr", 0): the entry always has the key, so the default never applies
AsrKeys(formats) == [i \in 1..Len(formats) |-> formats[i].asr]

HeightFpsKeys(formats) ==
    [i \in 1..Len(formats) |-> <<formats[i].height, formats[i].fps>>]

Raise(exc, msg) == [exc |-> exc, msg |-> msg, val |-> None]

Return(val) == [exc |-> "none", msg |-> <<>>, val |-> val]

MediaResult(info, media_type, selected_url, formats) ==
    [k \in ResultKeys |->
        CASE k = "media_type" -> PyStr(media_type)
          [] k = "stream_url" -> selected_url
          [] k = "available_formats" -> PyList(formats)
          [] OTHER -> InfoGet(info, k)]

\* ydl is what YoutubeDL.extract_info does for this call: it raises
\* (ydl.exc), or returns None or an info dict (ydl.info).
ExtractCall(ydl) ==
    IF ydl.exc # "none" THEN Raise(ydl.exc, <<ydl.exc>>)
    ELSE IF Falsy(ydl.info)
    THEN Raise("ValueError", <<"Could not extract video information">>)
    ELSE Return(ydl.info)

\* The rest of extract_info: filter, select, build the result.
SelectAndBuild(info, media_type) ==
    LET isAudio == media_type = AUDIO
        formats == IF isAudio THEN FilterAudio(RawFormats(info))
                              ELSE FilterVideo(RawFormats(info))
        best == IF formats = <<>> THEN 0
                ELSE IF isAudio THEN PyMax(AsrKeys(formats), FALSE)
                                ELSE PyMax(HeightFpsKeys(formats), TRUE)
        selected_url == IF formats = <<>> THEN None ELSE formats[best].url
    IN  IF media_type # AUDIO /\ media_type # VIDEO
        THEN Raise("ValueError", <<"Invalid media type">>)
        ELSE IF formats # <<>> /\ best = 0
        THEN Raise("TypeError", <<"'>' not supported">>)
        ELSE IF Falsy(selected_url)
        THEN Raise("ValueError", <<"No suitable", media_type, "format found">>)
        ELSE Return(MediaResult(info, media_type, selected_url, formats))

extract_info(ydl, media_type) ==
    LET c == ExtractCall(ydl)
    IN  IF c.exc # "none" THEN c ELSE SelectAndBuild(c.val.v, media_type)

----------------------------------------------------------------------------
(* What yt-dlp can report *)

MaxFormats == 2

Codecs == {PyStr(<<"none">>), PyStr(<<"codec">>), None}

Rates == {None, PyInt(44100), PyInt(48000)}

\* (height, fps) of a format
Pictures ==
    {<<None, None>>, <<PyInt(720), PyInt(24)>>, <<PyInt(720), PyInt(30)>>,
     <<PyInt(1080), PyInt(24)>>}

StreamUrls == <<PyStr(<<"url1">>), PyStr(<<"url2">>), PyStr(<<"url3">>)>>

\* the formats that can stand at position i of the list: the url is the
\* position's own, or missing
FormatsAt(i) ==
    {[format_id |-> PyInt(i), ext |-> None, filesize |-> None, width |-> None,
      acodec |-> a, vcodec |-> v, asr |-> r, height |-> p[1], fps |-> p[2],
      url |-> u] :
        a \in Codecs, v \in Codecs, r \in Rates, p \in Pictures,
        u \in {None, StreamUrls[i]}}

RECURSIVE FormatLists(_)
FormatLists(n) ==
    IF n = 0 THEN {<<>>}
    ELSE {Append(fs, f) : fs \in FormatLists(n - 1), f \in FormatsAt(n)}

InfoWith(fs) ==
    PyDict([title |-> PyStr(<<"title">>), id |-> PyStr(<<"id">>), formats |-> fs])

YdlReturns(info) == [exc |-> "none", info |-> info]

YdlRaises(exc) == [exc |-> exc, info |-> None]

\* every outcome of the yt-dlp call with at most n formats
YdlOutcomes(n) ==
    {YdlRaises("DownloadCancelled"), YdlReturns(None),
     YdlReturns(PyDict([title |-> PyStr(<<"title">>)]))}
    \cup {YdlReturns(InfoWith(fs)) : fs \in UNION {FormatLists(k) : k \in 0..n}}

----------------------------------------------------------------------------
(* extract_info on its own: one call per behaviour *)

Pending == [exc |-> "pending", msg |-> <<>>, val |-> None]

NoCall == [ydl |-> YdlReturns(None), media_type |-> <<>>]

InitSel ==
    /\ selIn \in [ydl : YdlOutcomes(MaxFormats), media_type : {AUDIO, VIDEO}]
    /\ selOut = Pending
    /\ requests = <<>>
    /\ hits = <<>>
    /\ window = <<>>

SelCall ==
    /\ selOut = Pending
    /\ selOut' = extract_info(selIn.ydl, selIn.media_type)
    /\ UNCHANGED <<selIn, requests, hits, window>>

NextSel == SelCall

SpecSel == InitSel /\ [][NextSel]_vars

----------------------------------------------------------------------------
(* The HTTP service *)

API_KEY == PyStr(<<"mera-secret-key">>)

\* @limiter.limit("10 per minute") and @limiter.limit("20 per minute")
DOWNLOAD_PER_MINUTE == 10

INFO_PER_MINUTE == 20

Limit(endpoint) ==
    IF endpoint = "download" THEN DOWNLOAD_PER_MINUTE ELSE INFO_PER_MINUTE

Endpoints == {"download", "info"}

\* get_remote_address(): the limiter's key
Addrs == {"10.0.0.1", "10.0.0.2"}

HTTP == <<"h", "t", "t", "p", ":", "/", "/">>

HTTPS == <<"h", "t", "t", "p", "s", ":", "/", "/">>

UpperCase == <<"A", "D", "E", "H", "I", "O", "P", "T", "U", "V">>

LowerCase == <<"a", "d", "e", "h", "i", "o", "p", "t", "u", "v">>

\* str.lower(), character by character
LowerChar(c) ==
    IF \E i \in 1..Len(UpperCase) : UpperCase[i] = c
    THEN LowerCase[CHOOSE i \in 1..Len(UpperCase) : UpperCase[i] = c]
    ELSE c

Lower(s) == [i \in 1..Len(s) |-> LowerChar(s[i])]

\* str.startswith(prefix)
StartsWith(s, prefix) ==
    Len(s) >= Len(prefix) /\ SubSeq(s, 1, Len(prefix)) = prefix

\* dict.get(key, default)
DictGet(d, k, default) == IF k \in DOMAIN d THEN d[k] ELSE default

Response(status, body) == [status |-> status, body |-> body]

NoResponse == Response(0, <<>>)

ErrorBody(msg) == [error |-> msg]

\* the limiter's own answer, not one of the handlers'
TooManyRequests == Response(429, [limiter |-> <<"Too Many Requests">>])

Unauthorized == Response(401, ErrorBody(<<"Unauthorized. Invalid API Key.">>))

\* a bug: one except clause for everything
DownloadExceptMutAll500(e) ==
    Response(500, [error |-> <<"An unexpected error occurred">>,
                   details |-> e.msg])

\* download's two except clauses (lines 156-164)
DownloadExcept(e) ==
    IF e.exc = "ValueError" THEN Response(400, ErrorBody(e.msg))
    ELSE Response(500, [error |-> <<"An unexpected error occurred">>,
                        details |-> e.msg])

\* get_info's except clause (lines 183-185)
InfoExcept(e) == Response(500, ErrorBody(e.msg))

Except(endpoint, e) ==
    IF endpoint = "download" THEN DownloadExcept(e) ELSE InfoExcept(e)

\* request.get_json() on the request's body.  Without a JSON body it returns
\* None or raises UnsupportedMediaType, by the Flask version; on a body that
\* does not parse it raises BadRequest.
GetJson(body) ==
    CASE body.kind = "absent" ->
            {Return(None), Raise("UnsupportedMediaType", <<"415">>)}
      [] body.kind = "malformed" -> {Raise("BadRequest", <<"400">>)}
      [] OTHER -> {Return(body.json)}

\* download from data = request.get_json() to the call of extract_info:
\* a response, or the (url, media_type) to extract with
DownloadParse(got) ==
    LET data == got.val
        url == DictGet(data.v, "url", None)
        type == DictGet(data.v, "type", PyStr(AUDIO))
        media_type == Lower(type.v)
        attr == Raise("AttributeError", <<"object has no attribute">>)
    IN  IF got.exc # "none"
        THEN [go |-> FALSE, response |-> DownloadExcept(got)]
        ELSE IF Falsy(data)
        THEN [go |-> FALSE,
              response |-> Response(400, ErrorBody(<<"Missing request body">>))]
        ELSE IF data.t # "dict" \/ type.t # "str"
        THEN [go |-> FALSE, response |-> DownloadExcept(attr)]
        ELSE IF Falsy(url)
        THEN [go |-> FALSE,
              response |-> Response(400, ErrorBody(<<"Missing 'url' in request">>))]
        ELSE IF media_type \notin {AUDIO, VIDEO}
        THEN [go |-> FALSE,
              response |-> Response(400,
                  ErrorBody(<<"Invalid 'type'. Use 'audio' or 'video'.">>))]
        ELSE IF url.t # "str"
        THEN [go |-> FALSE, response |-> DownloadExcept(attr)]
        ELSE IF ~(StartsWith(url.v, HTTP) \/ StartsWith(url.v, HTTPS))
        THEN [go |-> FALSE,
              response |-> Response(400, ErrorBody(<<"Invalid URL format">>))]
        ELSE [go |-> TRUE, url |-> url, media_type |-> media_type]

\* get_info from url = request.args.get("url") to the call of extract_info
InfoParse(url) ==
    IF Falsy(url)
    THEN [go |-> FALSE,
          response |-> Response(400, ErrorBody(<<"Missing 'url' parameter">>))]
    ELSE [go |-> TRUE, url |-> url, media_type |-> VIDEO]

\* result.pop("stream_url", None)
Pop(d, k) == [x \in DOMAIN d \ {k} |-> d[x]]

\* a bug: get_info forgets the pop
SuccessMutKeepsUrl(endpoint, result) == Response(200, result)


Success(endpoint, result) ==
    IF endpoint = "download" THEN Response(200, result)
    ELSE Response(200, Pop(result, "stream_url"))

----------------------------------------------------------------------------
(* What clients send *)

Keys == {None, PyStr(<<"wrong-key">>), API_KEY}

UrlValues ==
    {None, PyStr(<<>>), PyInt(5), PyStr(HTTP \o <<"a">>), PyStr(HTTPS \o <<"a">>),
     PyStr(<<"f", "t", "p", ":", "/", "/", "a">>),
     PyStr(<<"H", "T", "T", "P", ":", "/", "/", "a">>)}

TypeValues ==
    {None, PyStr(AUDIO), PyStr(<<"A", "u", "d", "i", "o">>), PyStr(VIDEO),
     PyStr(<<"V", "I", "D", "E", "O">>), PyStr(<<"m", "p", "3">>)}

\* a JSON object with the given url and type; Absent leaves the key out
Absent == [t |-> "absent"]

JsonObject(url, type) ==
    PyDict([k \in {x \in {"url", "type"} :
                     IF x = "url" THEN url # Absent ELSE type # Absent} |->
              IF k = "url" THEN url ELSE type])

JsonBody(v) == [kind |-> "json", json |-> v]

Bodies ==
    {[kind |-> "absent"], [kind |-> "malformed"], JsonBody(None),
     JsonBody(PyList(<<>>)), JsonBody(PyList(<<PyInt(1)>>)),
     JsonBody(PyDict([other |-> PyInt(1)]))}
    \cup {JsonBody(JsonObject(u, t)) :
            u \in UrlValues \cup {Absent}, t \in TypeValues \cup {Absent}}

\* the url query parameter of GET /api/info: a string, or None when missing
Queries ==
    {None, PyStr(<<>>), PyStr(HTTPS \o <<"a">>),
     PyStr(<<"f", "t", "p", ":", "/", "/", "a">>)}

Fmt(i, a, v, r, h, f, u) ==
    [format_id |-> PyInt(i), ext |-> None, filesize |-> None, width |-> None,
     acodec |-> a, vcodec |-> v, asr |-> r, height |-> h, fps |-> f, url |-> u]

Cd == PyStr(<<"codec">>)

No == PyStr(<<"none">>)

\* the yt-dlp outcomes the service is run against
ServerYdls ==
    {YdlRaises("DownloadCancelled"), YdlReturns(None),
     YdlReturns(InfoWith(<<>>)),
     YdlReturns(InfoWith(<<Fmt(1, Cd, No, PyInt(44100), None, None, StreamUrls[1]),
                          Fmt(2, Cd, No, PyInt(48000), None, None, StreamUrls[2]),
                          Fmt(3, Cd, Cd, PyInt(44100), PyInt(720), PyInt(30),
                              StreamUrls[3])>>)),
     YdlReturns(InfoWith(<<Fmt(1, Cd, No, None, None, None, StreamUrls[1]),
                          Fmt(2, Cd, No, PyInt(48000), None, None, StreamUrls[2]),
                          Fmt(3, Cd, Cd, None, PyInt(720), PyInt(30), StreamUrls[3])>>)),
     YdlReturns(InfoWith(<<Fmt(1, Cd, Cd, None, PyInt(720), PyInt(30), StreamUrls[1]),
                          Fmt(2, Cd, Cd, None, PyInt(1080), PyInt(24),
                              StreamUrls[2])>>)),
     YdlReturns(InfoWith(<<Fmt(1, Cd, Cd, None, None, None, StreamUrls[1]),
                          Fmt(2, Cd, Cd, None, PyInt(1080), PyInt(24),
                              StreamUrls[2])>>))}

----------------------------------------------------------------------------
(* One request: the limiter, then the handler, a step at a time *)

MaxRequests == 1

Unset == [t |-> "unset"]

Idle ==
    [pc |-> "idle", endpoint |-> "", addr |-> "", key |-> Unset,
     body |-> Unset, json |-> Unset, url |-> Unset, media_type |-> <<>>, ydl |-> Unset,
     result |-> Unset, response |-> NoResponse, calls |-> 0, trace |-> <<>>]

NoCalls == [passed |-> 0, rejected |-> FALSE]

Set(r, rec) == requests' = [requests EXCEPT ![r] = rec]

Finish(q, response) ==
    [q EXCEPT !.pc = "responded", !.response = response,
              !.trace = Append(q.trace, "Responded")]

Advance(q, stage, pc) == [q EXCEPT !.pc = pc, !.trace = Append(q.trace, stage)]

\* a bug: one counter per route, whoever calls
LimitKeyMutShared(endpoint, addr) == <<endpoint, "10.0.0.1">>

\* key_func=get_remote_address: one counter per route and address
LimitKey(endpoint, addr) == <<endpoint, addr>>

\* the limiter in front of a route: count the call, let it through while the
\* count is within the limit (the count stops at Limit + 1, which the
\* limiter tells from nothing above it)
Receive(r, endpoint, addr) ==
    LET k == LimitKey(endpoint, addr)
        q == [Idle EXCEPT !.endpoint = endpoint, !.addr = addr]
    IN  /\ requests[r].pc = "idle"
        /\ hits' = [hits EXCEPT ![k] = IF @ > Limit(endpoint) THEN @ ELSE @ + 1]
        /\ IF hits[k] + 1 > Limit(endpoint)
           THEN Set(r, [q EXCEPT !.pc = "limited", !.response = TooManyRequests])
           ELSE Set(r, Advance(q, "Received", "received"))
        /\ window' = [window EXCEPT ![<<endpoint, addr>>] =
                        IF requests'[r].pc = "limited"
                        THEN [@ EXCEPT !.rejected = TRUE]
                        ELSE [@ EXCEPT !.passed = @ + 1]]
        /\ UNCHANGED <<selIn, selOut>>

\* the limiter's window for one counter ends
WindowExpire(endpoint, addr) ==
    /\ hits[LimitKey(endpoint, addr)] > 0
    /\ hits' = [hits EXCEPT ![LimitKey(endpoint, addr)] = 0]
    /\ window' = [window EXCEPT ![<<endpoint, addr>>] = NoCalls]
    /\ UNCHANGED <<requests, selIn, selOut>>

\* a bug: only a key that is sent is checked
CheckKeyMutMissingOk(q, key) ==
    IF key # API_KEY /\ key # None THEN Finish([q EXCEPT !.key = key], Unauthorized)
    ELSE Advance([q EXCEPT !.key = key], "Authenticated", "authenticated")

\* provided_key = request.headers.get("X-API-Key"); the key check
CheckKey(q, key) ==
    IF key # API_KEY THEN Finish([q EXCEPT !.key = key], Unauthorized)
    ELSE Advance([q EXCEPT !.key = key], "Authenticated", "authenticated")

Auth(r, keys) ==
    /\ requests[r].pc = "received"
    /\ \E key \in keys : Set(r, CheckKey(requests[r], key))
    /\ UNCHANGED <<hits, window, selIn, selOut>>

Parsed(q, p) ==
    IF p.go
    THEN Advance([q EXCEPT !.url = p.url, !.media_type = p.media_type],
                 "Validated", "validated")
    ELSE Finish(q, p.response)

DownloadValidate(r, bodies) ==
    /\ requests[r].pc = "authenticated"
    /\ requests[r].endpoint = "download"
    /\ \E body \in bodies : \E got \in GetJson(body) :
          Set(r, Parsed([requests[r] EXCEPT !.body = body, !.json = got],
                        DownloadParse(got)))
    /\ UNCHANGED <<hits, window, selIn, selOut>>

InfoValidate(r, queries) ==
    /\ requests[r].pc = "authenticated"
    /\ requests[r].endpoint = "info"
    /\ \E url \in queries :
          Set(r, Parsed([requests[r] EXCEPT !.body = url], InfoParse(url)))
    /\ UNCHANGED <<hits, window, selIn, selOut>>

\* a bug: a failed extraction is tried again
CalledMutRetry(q, ydl) ==
    LET c == ExtractCall(ydl)
        q1 == [q EXCEPT !.ydl = ydl, !.calls = @ + 1]
    IN  IF c.exc # "none"
        THEN (IF q.calls = 0 THEN q1 ELSE Finish(q1, Except(q.endpoint, c)))
        ELSE Advance(q1, "Extracted", "extracted")

\* extract_info up to the return of ydl.extract_info (lines 50-57)
Called(q, ydl) ==
    LET c == ExtractCall(ydl)
        q1 == [q EXCEPT !.ydl = ydl, !.calls = @ + 1]
    IN  IF c.exc # "none" THEN Finish(q1, Except(q.endpoint, c))
        ELSE Advance(q1, "Extracted", "extracted")

Extract(r, ydls) ==
    /\ requests[r].pc = "validated"
    /\ \E ydl \in ydls : Set(r, Called(requests[r], ydl))
    /\ UNCHANGED <<hits, window, selIn, selOut>>

\* extract_info from the filter to its return (lines 59-119)
Selected(q) ==
    LET res == SelectAndBuild(q.ydl.info.v, q.media_type)
    IN  IF res.exc # "none" THEN Finish(q, Except(q.endpoint, res))
        ELSE Advance([q EXCEPT !.result = res.val], "Selected", "selected")

Select(r) ==
    /\ requests[r].pc = "extracted"
    /\ Set(r, Selected(requests[r]))
    /\ UNCHANGED <<hits, window, selIn, selOut>>

\* return jsonify(result), 200
Respond(r) ==
    /\ requests[r].pc = "selected"
    /\ Set(r, Finish(requests[r], Success(requests[r].endpoint, requests[r].result)))
    /\ UNCHANGED <<hits, window, selIn, selOut>>

\* the response is sent: the worker takes the next request
Recycle(r) ==
    /\ requests[r].pc \in {"responded", "limited"}
    /\ Set(r, Idle)
    /\ UNCHANGED <<hits, window, selIn, selOut>>

InitServer(n) ==
    /\ requests = [r \in 1..n |-> Idle]
    /\ hits = [k \in Endpoints \X Addrs |-> 0]
    /\ window = [k \in Endpoints \X Addrs |-> NoCalls]
    /\ selIn = NoCall
    /\ selOut = Pending

Init == InitServer(MaxRequests)

Next ==
    \/ \E r \in DOMAIN requests, e \in Endpoints, a \in Addrs : Receive(r, e, a)
    \/ \E r \in DOMAIN requests : Auth(r, Keys)
    \/ \E r \in DOMAIN requests : DownloadValidate(r, Bodies)
    \/ \E r \in DOMAIN requests : InfoValidate(r, Queries)
    \/ \E r \in DOMAIN requests : Extract(r, ServerYdls)
    \/ \E r \in DOMAIN requests : Select(r)
    \/ \E r \in DOMAIN requests : Respond(r)
    \/ \E e \in Endpoints, a \in Addrs : WindowExpire(e, a)

Spec == Init /\ [][Next]_vars

----------------------------------------------------------------------------
(* Requests served side by side, over fewer inputs *)

MaxConcurrent == 2

SomeKeys == {PyStr(<<"wrong-key">>), API_KEY}

SomeBodies ==
    {JsonBody(JsonObject(PyStr(HTTPS \o <<"a">>), Absent)),
     JsonBody(JsonObject(PyStr(<<"f", "t", "p", ":", "/", "/", "a">>),
                         PyStr(VIDEO)))}

SomeQueries == {None, PyStr(HTTPS \o <<"a">>)}

SomeYdls ==
    {YdlReturns(None), YdlReturns(InfoWith(<<>>)),
     YdlReturns(InfoWith(<<Fmt(1, Cd, No, PyInt(44100), None, None, StreamUrls[1]),
                          Fmt(2, Cd, Cd, PyInt(44100), PyInt(720), PyInt(30),
                              StreamUrls[2])>>))}

InitConc == InitServer(MaxConcurrent)

NextConc ==
    \/ \E r \in DOMAIN requests, e \in Endpoints : Receive(r, e, "10.0.0.1")
    \/ \E r \in DOMAIN requests : Auth(r, SomeKeys)
    \/ \E r \in DOMAIN requests : DownloadValidate(r, SomeBodies)
    \/ \E r \in DOMAIN requests : InfoValidate(r, SomeQueries)
    \/ \E r \in DOMAIN requests : Extract(r, SomeYdls)
    \/ \E r \in DOMAIN requests : Select(r)
    \/ \E r \in DOMAIN requests : Respond(r)

SpecConc == InitConc /\ [][NextConc]_vars

----------------------------------------------------------------------------
(* /api/download under load: workers take request after request *)

MaxWorkers == 2

GoodBodies == {JsonBody(JsonObject(PyStr(HTTPS \o <<"a">>), Absent))}

GoodYdls ==
    {YdlReturns(InfoWith(<<Fmt(1, Cd, No, PyInt(44100), None, None,
                               StreamUrls[1])>>))}

InitLimit == InitServer(MaxWorkers)

NextLimit ==
    \/ \E r \in DOMAIN requests, a \in Addrs : Receive(r, "download", a)
    \/ \E r \in DOMAIN requests : Auth(r, SomeKeys)
    \/ \E r \in DOMAIN requests : DownloadValidate(r, GoodBodies)
    \/ \E r \in DOMAIN requests : Extract(r, GoodYdls)
    \/ \E r \in DOMAIN requests : Select(r)
    \/ \E r \in DOMAIN requests : Respond(r)
    \/ \E r \in DOMAIN requests : Recycle(r)
    \/ \E a \in Addrs : WindowExpire("download", a)

SpecLimit == InitLimit /\ [][NextLimit]_vars

----------------------------------------------------------------------------
(* Properties of the handlers (Spec) *)

Req(r) == requests[r]

Status(r) == requests[r].response.status

Body(r) == requests[r].response.body

\* a request whose JSON body is an object
HasObject(r) ==
    /\ Req(r).endpoint = "download"
    /\ Req(r).body # Unset
    /\ Req(r).body.kind = "json"
    /\ Req(r).body.json.t = "dict"

Object(r) == Req(r).body.json.v

\* C1: a request whose X-API-Key is missing or is not the configured key is
\* answered 401 with the fixed body, on both routes, without its body or
\* query being read and without a call of the extraction.
C1_BadKeyIs401 ==
    \A r \in DOMAIN requests :
        (Req(r).key # Unset /\ Req(r).key # API_KEY) =>
            /\ Req(r).pc = "responded"
            /\ Status(r) = 401
            /\ Body(r) = [error |-> <<"Unauthorized. Invalid API Key.">>]
            /\ Req(r).body = Unset
            /\ Req(r).calls = 0

C1_Witness ==
    \E r \in DOMAIN requests :
        /\ Req(r).endpoint = "info"
        /\ Req(r).key = None
        /\ Status(r) = 401

\* C2: an authenticated POST /api/download whose url is a string that starts
\* with neither "http://" nor "https://" is answered 400, and the extraction
\* is not called.
C2_BadSchemeIs400 ==
    \A r \in DOMAIN requests :
        (/\ HasObject(r)
         /\ "url" \in DOMAIN Object(r)
         /\ Object(r)["url"].t = "str"
         /\ Object(r)["url"].v # <<>>
         /\ ~StartsWith(Object(r)["url"].v, <<"h", "t", "t", "p", ":", "/", "/">>)
         /\ ~StartsWith(Object(r)["url"].v,
                        <<"h", "t", "t", "p", "s", ":", "/", "/">>)) =>
            /\ Status(r) = 400
            /\ Req(r).calls = 0

\* the spellings of audio and video among TypeValues
AcceptedTypes ==
    {PyStr(AUDIO), PyStr(<<"A", "u", "d", "i", "o">>), PyStr(VIDEO),
     PyStr(<<"V", "I", "D", "E", "O">>)}

InvalidType == Response(400, ErrorBody(<<"Invalid 'type'. Use 'audio' or 'video'.">>))

\* C3: an authenticated POST /api/download whose type is not audio or video
\* in some letter case is answered 400; one whose type is audio or video in
\* any letter case is not turned away for its type; without a type the
\* request is handled as audio.
C3_TypeChecked ==
    \A r \in DOMAIN requests :
        HasObject(r) =>
            IF "type" \notin DOMAIN Object(r)
            THEN /\ Req(r).response # InvalidType
                 /\ "Validated" \in Range(Req(r).trace) => Req(r).media_type = AUDIO
            ELSE IF Object(r)["type"] \in AcceptedTypes
            THEN Req(r).response # InvalidType
            ELSE Status(r) = 400

\* C4: an authenticated POST /api/download whose body has no url (an object
\* without the key, the empty object, or no JSON body where get_json
\* returns None) is answered 400, whatever its type is, and the extraction
\* is not called.
C4_NoUrlIs400 ==
    \A r \in DOMAIN requests :
        (/\ Req(r).endpoint = "download"
         /\ Req(r).body # Unset
         /\ \/ Req(r).body.kind = "absent" /\ Req(r).json.exc = "none"
            \/ HasObject(r) /\ "url" \notin DOMAIN Object(r)) =>
            /\ Status(r) = 400
            /\ Req(r).calls = 0

\* C5: no answer of GET /api/info has a stream_url key; when the extraction
\* succeeds the answer is 200 with every other key of extract_info's result,
\* available_formats among them, as extract_info returned it.
C5_InfoHidesStreamUrl ==
    \A r \in DOMAIN requests :
        (Req(r).endpoint = "info" /\ Req(r).pc \in {"responded", "limited"}) =>
            /\ "stream_url" \notin DOMAIN Body(r)
            /\ Req(r).ydl # Unset =>
                 LET out == extract_info(Req(r).ydl, VIDEO)
                 IN  out.exc = "none" =>
                        /\ Status(r) = 200
                        /\ DOMAIN Body(r) = ResultKeys \ {"stream_url"}
                        /\ \A k \in DOMAIN Body(r) : Body(r)[k] = out.val[k]

C5_Witness ==
    \E r \in DOMAIN requests :
        /\ Req(r).endpoint = "info"
        /\ Status(r) = 200
        /\ Req(r).result["stream_url"] = StreamUrls[2]
        /\ Len(Body(r)["available_formats"].v) = 2

\* C8: an authenticated, well-formed POST /api/download is answered 200 with
\* the result and its stream URL when the extraction succeeds, 400 with the
\* message when yt-dlp reports nothing or no format suits, and 500 with the
\* generic message and a details field on any other failure; every answer
\* of the handler that is not a 200 is the error envelope.
C8_DownloadEnvelope ==
    \A r \in DOMAIN requests :
        (Req(r).endpoint = "download" /\ Req(r).pc = "responded") =>
            /\ Status(r) \in {200, 400, 401, 500}
            /\ Status(r) # 200 => "error" \in DOMAIN Body(r)
            /\ Req(r).ydl # Unset =>
                 LET out == extract_info(Req(r).ydl, Req(r).media_type)
                     ydl == Req(r).ydl
                 IN  /\ out.exc = "none" =>
                            /\ Status(r) = 200
                            /\ Body(r) = out.val
                            /\ ~Falsy(Body(r)["stream_url"])
                     /\ out.exc = "ValueError" =>
                            /\ Status(r) = 400
                            /\ Body(r) = [error |-> out.msg]
                     /\ out.exc \notin {"none", "ValueError"} =>
                            /\ Status(r) = 500
                            /\ DOMAIN Body(r) = {"error", "details"}
                            /\ Body(r)["error"] = <<"An unexpected error occurred">>
                     /\ ydl.exc # "none" => Status(r) = 500
                     /\ (ydl.exc = "none" /\ Falsy(ydl.info)) =>
                            /\ Status(r) = 400
                            /\ Body(r)["error"] = <<"Could not extract video information">>
                     /\ (ydl.exc = "none" /\ ~Falsy(ydl.info)
                           /\ RawFormats(ydl.info.v) = <<>>) =>
                            /\ Status(r) = 400
                            /\ Body(r)["error"] =
                                 <<"No suitable", Req(r).media_type, "format found">>

C8_Witness ==
    \E r \in DOMAIN requests :
        /\ Req(r).endpoint = "download"
        /\ Req(r).media_type = AUDIO
        /\ Status(r) = 200
        /\ Body(r)["stream_url"] = StreamUrls[2]

----------------------------------------------------------------------------
(* Properties of extract_info (SpecSel) *)

\* the call returned an info dict, so the formats were filtered
Filtered(media_type) ==
    /\ selOut # Pending
    /\ selIn.media_type = media_type
    /\ selIn.ydl.exc = "none"
    /\ ~Falsy(selIn.ydl.info)

Raw == RawFormats(selIn.ydl.info.v)

NoSuitable(media_type) ==
    /\ selOut.exc = "ValueError"
    /\ selOut.msg = <<"No suitable", media_type, "format found">>

\* the result lists exactly the raw formats at the positions in kept
Lists(kept) ==
    LET listed == selOut.val["available_formats"].v
    IN  /\ Len(listed) = Cardinality(kept)
        /\ {listed[i].format_id : i \in 1..Len(listed)} = {PyInt(i) : i \in kept}

\* a missing number ranks as 0, the default the code names
Num(x) == IF x = None THEN 0 ELSE x.v

AudioOnly == {i \in 1..Len(Raw) : Raw[i].acodec # No /\ Raw[i].vcodec = No}

BestAudio ==
    SetMin({i \in AudioOnly : \A j \in AudioOnly : Num(Raw[i].asr) >= Num(Raw[j].asr)})

\* C6: for audio, extract_info keeps exactly the formats with an audio codec
\* and no video codec and selects the url of the first of them with the
\* greatest sample rate, whatever the list is, missing sample rates
\* included; with nothing kept it raises "No suitable audio format found".
C6_AudioSelection ==
    Filtered(AUDIO) =>
        IF AudioOnly = {} THEN NoSuitable(AUDIO)
        ELSE Raw[BestAudio].url # None =>
                /\ selOut.exc = "none"
                /\ Lists(AudioOnly)
                /\ selOut.val["stream_url"] = Raw[BestAudio].url

Muxed == {i \in 1..Len(Raw) : Raw[i].acodec # No /\ Raw[i].vcodec # No}

\* (height, fps) of i is at least that of j, lexicographically
PictureGeq(i, j) ==
    \/ Num(Raw[i].height) > Num(Raw[j].height)
    \/ /\ Num(Raw[i].height) = Num(Raw[j].height)
       /\ Num(Raw[i].fps) >= Num(Raw[j].fps)

BestVideo == {i \in Muxed : \A j \in Muxed : PictureGeq(i, j)}

\* C7: for video, extract_info keeps exactly the formats with both an audio
\* and a video codec and selects the url of one with the greatest
\* (height, fps), height first; with nothing kept it raises
\* "No suitable video format found".
C7_VideoSelection ==
    Filtered(VIDEO) =>
        IF Muxed = {} THEN NoSuitable(VIDEO)
        ELSE (\A i \in BestVideo : Raw[i].url # None) =>
                /\ selOut.exc = "none"
                /\ Lists(Muxed)
                /\ selOut.val["stream_url"] \in {Raw[i].url : i \in BestVideo}

----------------------------------------------------------------------------
(* The limiter on /api/download (SpecLimit) *)

Calls(addr) == window[<<"download", addr>>]

----------------------------------------------------------------------------
(* The stages of a request (SpecConc) *)

Stages == <<"Received", "Authenticated", "Validated", "Extracted", "Selected">>

\* the stages in order up to some stage, then at most one response
InOrder(trace) ==
    \E n \in 0..Len(Stages) :
        \/ trace = SubSeq(Stages, 1, n)
        \/ n >= 1 /\ trace = Append(SubSeq(Stages, 1, n), "Responded")

\* the answer the request's own header, body and extraction decide
OwnAnswer(q) ==
    IF q.key # API_KEY THEN Unauthorized
    ELSE LET p == IF q.endpoint = "download" THEN DownloadParse(q.json)
                  ELSE InfoParse(q.body)
         IN  IF ~p.go THEN p.response
             ELSE LET out == extract_info(q.ydl, p.media_type)
                  IN  IF out.exc # "none" THEN Except(q.endpoint, out)
                      ELSE Success(q.endpoint, out.val)

\* C10: a request goes through Received, Authenticated, Validated,
\* Extracted, Selected in that order and is answered once, at the first
\* stage that fails or after the last; the extraction is called at most
\* once, and only after the key check and the validation passed; the answer
\* is the one the request's own inputs decide, whatever the other requests do.
C10_Stages ==
    \A r \in DOMAIN requests :
        LET q == Req(r)
            done == q.pc = "responded"
        IN  /\ InOrder(q.trace)
            /\ done <=> (q.trace # <<>> /\ q.trace[Len(q.trace)] = "Responded")
            /\ done <=> q.response # NoResponse
            /\ q.calls <= 1
            /\ q.calls = 1 =>
                 /\ q.key = API_KEY
                 /\ SubSeq(q.trace, 1, 3) = SubSeq(Stages, 1, 3)
            /\ q.calls = 1 <=> q.ydl # Unset
            /\ Len(q.trace) >= 4 => (q.calls = 1 \/ done)
            /\ (done /\ Status(r) = 200) => q.trace = Append(Stages, "Responded")
            /\ done => q.response = OwnAnswer(q)

C10_Witness ==
    \E r, s \in DOMAIN requests :
        /\ Req(r).trace = Append(Stages, "Responded")
        /\ Status(r) = 200
        /\ Req(s).trace = <<"Received", "Authenticated", "Validated", "Responded">>
        /\ Req(s).calls = 1
        /\ Status(s) \in {400, 500}

====
